---------------------------- MODULE Spec2Model ----------------------------
(***************************************************************************)
(* Model of utils/DHTermSearch.py, query_ctgov_api: paginated retrieval    *)
(* from the ClinicalTrials.gov study_fields endpoint, accumulation of the  *)
(* pages in one table, clean-up of the cells and removal of duplicates.    *)
(*                                                                         *)
(* A string is a sequence of characters.  A cell of the table is a record  *)
(* [t, v]: t is "nan" (missing value), "str" or "list", and v is the       *)
(* sequence of strings it holds (none for nan, one for str, the elements   *)
(* for list).  The table has the Rank column and one returned field.       *)
(***************************************************************************)
EXTENDS Integers, Sequences, FiniteSets, TLC

(***************************************************************************)
(* Program constants.                                                      *)
(***************************************************************************)
FirstMin == 1
PageSize == 1000
MinStep == 999
MaxStep == 999
MaxFields == 20

TAB == "\t"
NL == "\n"
SP == " "

(***************************************************************************)
(* Bounds of the model.                                                    *)
(***************************************************************************)
MaxExtraPages == 2
MaxStrLen == 2
MaxElemLen == 1
MaxListLen == 2

Min(a, b) == IF a < b THEN a ELSE b
Max(a, b) == IF a > b THEN a ELSE b
Range(s) == {s[i] : i \in DOMAIN s}

SeqsUpTo(S, n) == UNION {[1..k -> S] : k \in 0..n}

(***************************************************************************)
(* Cells.                                                                  *)
(***************************************************************************)
NaN == [t |-> "nan", v |-> <<>>]
Str(s) == [t |-> "str", v |-> <<s>>]
List(l) == [t |-> "list", v |-> l]

Chars == {"a", SP, TAB, NL}
ElemChars == {"a", TAB, NL}
Strings == SeqsUpTo(Chars, MaxStrLen)
ElemStrings == SeqsUpTo(ElemChars, MaxElemLen)
Cells == {NaN} \cup {Str(s) : s \in Strings}
               \cup {List(l) : l \in SeqsUpTo(ElemStrings, MaxListLen)}
TwinCells == {NaN, Str(<<>>), Str(<<TAB>>), Str(<<NL>>), Str(<<SP>>)}

(***************************************************************************)
(* sep.join(x), and "\t".join(x)                                           *)
(***************************************************************************)
RECURSIVE JoinWith(_, _)
JoinWith(sep, l) ==
    IF Len(l) = 0 THEN <<>>
    ELSE IF Len(l) = 1 THEN l[1]
    ELSE l[1] \o <<sep>> \o JoinWith(sep, Tail(l))

Join(l) == JoinWith(TAB, l)

(***************************************************************************)
(* s.split("\t"): the pieces of s between its tabs                         *)
(***************************************************************************)
RECURSIVE Split(_)
Split(s) ==
    IF \A i \in DOMAIN s : s[i] # TAB THEN <<s>>
    ELSE LET k == CHOOSE i \in DOMAIN s :
                      s[i] = TAB /\ \A j \in 1..(i - 1) : s[j] # TAB
         IN <<SubSeq(s, 1, k - 1)>> \o Split(SubSeq(s, k + 1, Len(s)))

(***************************************************************************)
(* DataFrame.replace(np.nan, ""): missing values become the empty string   *)
(***************************************************************************)
ReplaceNaN(c) == IF c.t = "nan" THEN Str(<<>>) ELSE c

(***************************************************************************)
(* DataFrame.replace(ch, ' ') without regex: a cell is replaced when its   *)
(* whole value equals ch                                                   *)
(***************************************************************************)
ReplaceValue(c, ch) == IF c.t = "str" /\ c.v[1] = <<ch>> THEN Str(<<SP>>) ELSE c

(***************************************************************************)
(* lambda x: "\t".join(x) if type(x)==list else x                          *)
(***************************************************************************)
FlattenWithSpace(c) == IF c.t = "list" THEN Str(JoinWith(SP, c.v)) ELSE c
Flatten(c) == IF c.t = "list" THEN Str(Join(c.v)) ELSE c

CleanCell(c) ==
    ReplaceNaN(Flatten(ReplaceValue(ReplaceValue(ReplaceNaN(c), TAB), NL)))

(***************************************************************************)
(* DataFrame.drop_duplicates(): the first occurrence of every row is kept, *)
(* in order                                                                *)
(***************************************************************************)
RECURSIVE DropDup(_)
DropDup(df) ==
    IF Len(df) <= 1 THEN df
    ELSE LET m == Len(df) \div 2
             left == DropDup(SubSeq(df, 1, m))
             right == DropDup(SubSeq(df, m + 1, Len(df)))
             seen == Range(left)
         IN left \o SelectSeq(right, LAMBDA row : row \notin seen)
KeepAllRows(df) == df
drop_duplicates(df) == DropDup(df)

(***************************************************************************)
(* State: the arguments of the call, the registry behind study_url, the    *)
(* locals of query_ctgov_api, the requests issued so far with the          *)
(* NStudiesReturned of each response, and the value returned.              *)
(***************************************************************************)
VARIABLES query, return_fields, n_lim, found, odd,
          pc, curr_min, curr_max, n_total, clinical_df,
          requests, responses, ret

vars == <<query, return_fields, n_lim, found, odd,
          pc, curr_min, curr_max, n_total, clinical_df,
          requests, responses, ret>>

args == <<query, return_fields, n_lim, found, odd>>

(***************************************************************************)
(* The registry: it holds the studies of ranks 1..found.  The returned     *)
(* field of the study of rank r is a one-element list holding the study's  *)
(* identifier, except at the ranks of OddRanks, whose cells are odd[r].    *)
(***************************************************************************)
OddRanks == {1, 2}
IdCell(r) == List(<< <<ToString(r)>> >>)
Plain == [r \in OddRanks |-> IdCell(r)]
RegistryField(r) == IF r \in DOMAIN odd THEN odd[r] ELSE IdCell(r)
RegistryStudy(r) == [Rank |-> r, Field |-> RegistryField(r)]

(***************************************************************************)
(* The response to a request for the ranks min_rnk..max_rnk: the studies   *)
(* of these ranks that exist, or nothing at all when the page is lost.     *)
(***************************************************************************)
StudyFields(min_rnk, max_rnk) ==
    LET hi == Min(max_rnk, found)
    IN IF hi < min_rnk THEN <<>>
       ELSE [i \in 1..(hi - min_rnk + 1) |-> RegistryStudy(min_rnk + i - 1)]

Response(min_rnk, max_rnk, lost) ==
    LET sf == IF lost THEN <<>> ELSE StudyFields(min_rnk, max_rnk)
    IN [NStudiesFound |-> found, NStudiesReturned |-> Len(sf), StudyFields |-> sf]

(***************************************************************************)
(* The steps of query_ctgov_api.                                           *)
(***************************************************************************)
NoLimit == [given |-> FALSE, v |-> 0]
Limit(k) == [given |-> TRUE, v |-> k]

Pending == [kind |-> "pending", df |-> <<>>]
ReturnNone == [kind |-> "None", df |-> <<>>]
ReturnTooMany == [kind |-> "TooManyFields", df |-> <<>>]
ReturnNoStudies == [kind |-> "NoStudiesFound", df |-> <<>>]
ReturnTable(df) == [kind |-> "DataFrame", df |-> df]

FieldsFirst(q, rf) ==
    IF Len(rf) > MaxFields THEN "TooManyFields"
    ELSE IF Len(q) = 0 THEN "None"
    ELSE "Request"
LooseValidate(q, rf) ==
    IF Len(q) = 0 THEN "None"
    ELSE IF Len(rf) > MaxFields + 1 THEN "TooManyFields"
    ELSE "Request"
Validate(q, rf) ==
    IF Len(q) = 0 THEN "None"
    ELSE IF Len(rf) > MaxFields THEN "TooManyFields"
    ELSE "Request"

AnyResponse(info) == info.NStudiesReturned >= 0
HasStudies(info) == info.NStudiesReturned > 0

IgnoreLimit(nfound, lim) == nfound
NTotal(nfound, lim) == IF lim.given THEN Min(nfound, lim.v) ELSE nfound

MorePages(ntotal, cmax) == ntotal > cmax

StuckMin(cmin) == cmin
NextMin(cmin) == cmin + MinStep

UnclippedMax(ntotal, cmax) == cmax + MaxStep
NextMax(ntotal, cmax) == Min(ntotal, cmax + MaxStep)

Window(lo, hi) == [min_rnk |-> lo, max_rnk |-> hi]

PostProcess(df) ==
    drop_duplicates([i \in DOMAIN df |-> [Field |-> CleanCell(df[i].Field)]])

(* lines 24-25: the empty query returns nothing *)
EmptyQuery ==
    /\ pc = "call"
    /\ Validate(query, return_fields) = "None"
    /\ ret' = ReturnNone
    /\ pc' = "done"
    /\ UNCHANGED <<args, curr_min, curr_max, n_total, clinical_df, requests, responses>>

(* lines 27-28: too many return fields *)
TooManyFields ==
    /\ pc = "call"
    /\ Validate(query, return_fields) = "TooManyFields"
    /\ ret' = ReturnTooMany
    /\ pc' = "done"
    /\ UNCHANGED <<args, curr_min, curr_max, n_total, clinical_df, requests, responses>>

(* lines 32-61: the first request and its response.  The first page of a
   registry that holds studies is not empty: line 52 reads NStudiesReturned = 0
   there as "no studies found" *)
FirstRequest ==
    /\ pc = "call"
    /\ Validate(query, return_fields) = "Request"
    /\ LET info == Response(FirstMin, PageSize, FALSE)
       IN /\ curr_min' = FirstMin
          /\ curr_max' = PageSize
          /\ requests' = <<Window(FirstMin, PageSize)>>
          /\ responses' = <<info.NStudiesReturned>>
          /\ IF HasStudies(info)
             THEN /\ n_total' = NTotal(info.NStudiesFound, n_lim)
                  /\ clinical_df' = info.StudyFields
                  /\ pc' = "loop"
                  /\ ret' = ret
             ELSE /\ ret' = ReturnNoStudies
                  /\ pc' = "done"
                  /\ UNCHANGED <<n_total, clinical_df>>
    /\ UNCHANGED args

(* lines 64-84: one turn of the loop; a page that comes back empty is skipped *)
NextPage ==
    /\ pc = "loop"
    /\ MorePages(n_total, curr_max)
    /\ \E lost \in BOOLEAN :
         LET lo == NextMin(curr_min)
             hi == NextMax(n_total, curr_max)
             info == Response(lo, hi, lost)
         IN /\ curr_min' = lo
            /\ curr_max' = hi
            /\ requests' = Append(requests, Window(lo, hi))
            /\ responses' = Append(responses, info.NStudiesReturned)
            /\ clinical_df' = IF HasStudies(info)
                              THEN clinical_df \o info.StudyFields
                              ELSE clinical_df
    /\ UNCHANGED <<args, pc, n_total, ret>>

(* lines 91-102: clean up the values, drop the duplicates, return the table *)
CleanUp ==
    /\ pc = "loop"
    /\ ~MorePages(n_total, curr_max)
    /\ ret' = ReturnTable(PostProcess(clinical_df))
    /\ pc' = "done"
    /\ UNCHANGED <<args, curr_min, curr_max, n_total, clinical_df, requests, responses>>

(***************************************************************************)
(* The calls explored.                                                     *)
(***************************************************************************)
Boundaries == {PageSize + k * MaxStep + d : k \in 0..(MaxExtraPages - 1), d \in {0, 1}}
FoundChoices == {0, 1} \cup Boundaries
LimChoices ==
    {NoLimit, Limit(0), Limit(1), Limit(PageSize + 500)} \cup {Limit(b) : b \in Boundaries}
FieldLists == {[i \in 1..n |-> i] : n \in {0, 1, MaxFields, MaxFields + 1, MaxFields + 2}}

Arg(q, rf, lim, nf, o) == [query |-> q, return_fields |-> rf, n_lim |-> lim, found |-> nf, odd |-> o]

(* paging: every size of the result set and every limit, plain studies *)
PagingCalls ==
    {Arg(<<"q">>, <<1>>, lim, nf, Plain) : lim \in LimChoices, nf \in FoundChoices}
(* cells: one study whose cell takes every value *)
CellCalls ==
    {Arg(<<"q">>, <<1>>, NoLimit, 1, [Plain EXCEPT ![1] = c]) : c \in Cells}
(* twins: two studies among more than a page of them, with cells that differ
   in missing values and white space only *)
TwinCalls ==
    {Arg(<<"q">>, <<1>>, NoLimit, PageSize + 1, o) : o \in [OddRanks -> TwinCells]}
(* validation: every query and every number of return fields *)
ValidationCalls ==
    {Arg(q, rf, lim, nf, Plain) :
        q \in {<<>>, <<"q">>}, rf \in FieldLists,
        lim \in {NoLimit, Limit(1)}, nf \in {0, 1, 2}}

Calls == PagingCalls \cup CellCalls \cup TwinCalls \cup ValidationCalls

Init ==
    /\ \E a \in Calls :
         /\ query = a.query
         /\ return_fields = a.return_fields
         /\ n_lim = a.n_lim
         /\ found = a.found
         /\ odd = a.odd
    /\ pc = "call"
    /\ curr_min = 0
    /\ curr_max = 0
    /\ n_total = 0
    /\ clinical_df = <<>>
    /\ requests = <<>>
    /\ responses = <<>>
    /\ ret = Pending

Next == EmptyQuery \/ TooManyFields \/ FirstRequest \/ NextPage \/ CleanUp

Spec == Init /\ [][Next]_vars

(* the call is sequential code that nothing suspends: the validation, the
   first request and every turn of the loop are taken when they can be *)
FairSpec == Spec /\ WF_vars(EmptyQuery \/ TooManyFields \/ FirstRequest \/ NextPage)

(***************************************************************************)
(* Vocabulary of the properties.                                           *)
(***************************************************************************)
Returned == pc = "done"
LoopOver == pc = "done" \/ (pc = "loop" /\ ~MorePages(n_total, curr_max))
ReturnedTable == pc = "done" /\ ret.kind = "DataFrame"
LastRequest == requests[Len(requests)]
Rows(df) == Range(df)
TabsIn(s) == Cardinality({i \in DOMAIN s : s[i] = TAB})
NewlinesIn(s) == Cardinality({i \in DOMAIN s : s[i] = NL})
RECURSIVE TabsInAll(_)
TabsInAll(l) == IF Len(l) = 0 THEN 0 ELSE TabsIn(l[1]) + TabsInAll(Tail(l))
(* every page asked for came back with the studies of its window *)
Faithful ==
    \A i \in DOMAIN responses :
        responses[i] = Len(StudyFields(requests[i].min_rnk, requests[i].max_rnk))
CleanRecords(n) == {[Field |-> CleanCell(RegistryField(r))] : r \in 1..n}
RegistryDistinct == Cardinality({RegistryField(r) : r \in 1..found}) = found
CleanDistinct == Cardinality(CleanRecords(found)) = found
UnlimitedBigQuery ==
    /\ ReturnedTable
    /\ Len(query) > 0
    /\ Len(return_fields) <= 20
    /\ ~n_lim.given
    /\ found > 1000
    /\ Faithful

(***************************************************************************)
(* C1: the rank windows requested in one call partition [1, n_total]: each *)
(* later window starts one past the upper bound of the window before it,   *)
(* and ends at the lesser of that upper bound + 999 and n_total.           *)
(***************************************************************************)
C1_WindowsPartition ==
    \A i \in 1..(Len(requests) - 1) :
        /\ requests[i + 1].min_rnk = requests[i].max_rnk + 1
        /\ requests[i + 1].max_rnk = Min(requests[i].max_rnk + 999, n_total)

(***************************************************************************)
(* C2 as stated: an unlimited query against a registry of N > 1000         *)
(* pairwise-distinct records that answers every request with the records   *)
(* of the window returns exactly N rows.                                   *)
(***************************************************************************)
C2_OneRowPerStudy ==
    (UnlimitedBigQuery /\ RegistryDistinct) => Len(ret.df) = found

(***************************************************************************)
(* C2 as amended: such a query returns exactly one row for every distinct  *)
(* record after clean-up, none missing and none repeated; these are N rows *)
(* when the N records are still pairwise distinct after clean-up.          *)
(***************************************************************************)
C2_OneRowPerCleanRecord ==
    UnlimitedBigQuery =>
        /\ Rows(ret.df) = CleanRecords(found)
        /\ Len(ret.df) = Cardinality(CleanRecords(found))
        /\ CleanDistinct => Len(ret.df) = found

C2_Witness ==
    /\ UnlimitedBigQuery
    /\ CleanDistinct
    /\ Len(requests) >= 3
    /\ Len(clinical_df) > found
    /\ Len(ret.df) = found

(***************************************************************************)
(* C3: a non-empty query with more than 20 return fields yields the        *)
(* too-many-return-fields outcome, no table, and no request is issued.     *)
(***************************************************************************)
C3_TooManyFieldsNoRequest ==
    (Len(query) > 0 /\ Len(return_fields) > 20) =>
        /\ requests = <<>>
        /\ responses = <<>>
        /\ Returned => ret = ReturnTooMany

C3_Witness ==
    /\ Returned
    /\ Len(query) > 0
    /\ Len(return_fields) = 21
    /\ ret.kind = "TooManyFields"
    /\ requests = <<>>

(***************************************************************************)
(* C4: when the first response reports zero studies the call has returned  *)
(* the no-studies-found outcome with no table, exactly one request has     *)
(* been issued and no step remains, whatever the result limit.             *)
(***************************************************************************)
C4_NoStudiesTerminal ==
    (Len(responses) >= 1 /\ responses[1] = 0) =>
        /\ Returned
        /\ ret = ReturnNoStudies
        /\ ret.kind # "DataFrame"
        /\ Len(requests) = 1
        /\ ~ENABLED Next

C4_Witness ==
    /\ responses = <<0>>
    /\ n_lim.given
    /\ n_lim.v > 1000
    /\ ret.kind = "NoStudiesFound"

(***************************************************************************)
(* C5: the empty query returns nothing, neither a table nor an error       *)
(* sentinel, and issues no request, whatever the other arguments are.      *)
(***************************************************************************)
C5_EmptyQueryNothing ==
    Len(query) = 0 =>
        /\ requests = <<>>
        /\ responses = <<>>
        /\ Returned => ret = ReturnNone

C5_Witness ==
    /\ Returned
    /\ Len(query) = 0
    /\ Len(return_fields) > 20
    /\ ret.kind = "None"

C7_SplitRecoversLength ==
    ReturnedTable =>
        LET rows == Rows(ret.df)
        IN \A i \in DOMAIN clinical_df :
             LET c == clinical_df[i].Field
             IN c.t = "list" =>
                  /\ [Field |-> Str(Join(c.v))] \in rows
                  /\ Len(Split(Join(c.v))) = Len(c.v)

(***************************************************************************)
(* C7 as amended: every list cell becomes the string of its elements       *)
(* joined by a tab; splitting it on tab yields one piece for the empty     *)
(* list and otherwise as many pieces as the list had elements plus one for *)
(* every tab inside an element, hence exactly as many as the elements when *)
(* the list is non-empty and no element contains a tab.                    *)
(***************************************************************************)
C7_SplitCountsTabs ==
    ReturnedTable =>
        LET rows == Rows(ret.df)
        IN \A i \in DOMAIN clinical_df :
             LET c == clinical_df[i].Field
                 joined == Join(c.v)
                 pieces == Split(joined)
             IN c.t = "list" =>
                  /\ [Field |-> Str(joined)] \in rows
                  /\ Len(c.v) = 0 => (joined = <<>> /\ Len(pieces) = 1)
                  /\ Len(c.v) > 0 => Len(pieces) = Len(c.v) + TabsInAll(c.v)
                  /\ (Len(c.v) > 0 /\ TabsInAll(c.v) = 0) => pieces = c.v

C7_Witness ==
    /\ ReturnedTable
    /\ \E i \in DOMAIN clinical_df :
         /\ clinical_df[i].Field = List(<< <<"a">>, <<>> >>)
         /\ \E j \in DOMAIN ret.df :
              Split(ret.df[j].Field.v[1]) = << <<"a">>, <<>> >>

(***************************************************************************)
(* C8: in the returned table no cell is a missing value, no cell contains  *)
(* a newline, and the only tabs of a cell are the separators between the   *)
(* elements of the list it was flattened from.                             *)
(***************************************************************************)
C8_NoTabNoNewline ==
    ReturnedTable =>
        LET rows == Rows(ret.df)
        IN /\ \A i \in DOMAIN clinical_df :
                LET c == clinical_df[i].Field
                    out == CleanCell(c)
                IN /\ [Field |-> out] \in rows
                   /\ out.t = "str"
                   /\ NewlinesIn(out.v[1]) = 0
                   /\ TabsIn(out.v[1]) = IF c.t = "list" THEN Max(Len(c.v) - 1, 0) ELSE 0
           /\ \A i \in DOMAIN ret.df : ret.df[i].Field.t = "str"

(***************************************************************************)
(* C9: the call returns after finitely many requests; when n_total exceeds *)
(* 1000 the requested upper bound grows with every request, lost pages     *)
(* included, and the last requested max_rnk is n_total.                    *)
(***************************************************************************)
C9_LoopTerminates ==
    /\ <>LoopOver
    /\ [](Len(requests) <= 1 + (Max(n_total - 1000, 0) + 998) \div 999)
    /\ [][(requests # <<>> /\ requests' # requests) =>
             /\ Len(requests') = Len(requests) + 1
             /\ requests'[Len(requests')].max_rnk > LastRequest.max_rnk]_vars
    /\ []((ReturnedTable /\ n_total > 1000) => LastRequest.max_rnk = n_total)

C9_Witness ==
    /\ ReturnedTable
    /\ n_total > 1000
    /\ Len(requests) >= 3
    /\ \E i \in DOMAIN responses : responses[i] = 0
    /\ LastRequest.max_rnk = n_total

(***************************************************************************)
(* C10: every request asks for a non-empty window of at most 1000 ranks:   *)
(* 1 <= min_rnk <= max_rnk and max_rnk - min_rnk + 1 <= 1000.              *)
(***************************************************************************)
C10_WindowWithinCap ==
    \A i \in DOMAIN requests :
        /\ 1 <= requests[i].min_rnk
        /\ requests[i].min_rnk <= requests[i].max_rnk
        /\ requests[i].max_rnk - requests[i].min_rnk + 1 <= 1000

C10_Witness ==
    /\ Len(requests) >= 3
    /\ LastRequest.max_rnk - LastRequest.min_rnk + 1 < 1000

=============================================================================
